---- MODULE Spec2Model ----
(***************************************************************************)
(* Model of scripts/apply_supabase_migration.py: the SQL statement         *)
(* splitter split_sql_statements, a single pass over the script text that  *)
(* tracks the lexical context (literals, quoted identifiers, comments,     *)
(* dollar-quoted bodies) and cuts the script at top-level semicolons.      *)
(*                                                                         *)
(* A script is a sequence of one-character strings.  The list buf that the *)
(* code joins with "".join(buf) is modelled by the joined text.  The scan  *)
(* index i is 0-based as in the code: sql[i] of the code is sql[i + 1].    *)
(***************************************************************************)
EXTENDS Integers, Sequences, FiniteSets, TLC

\* ------------------------------------------------------------ bounds

\* Longest script over the general alphabet.
MaxLen == 4
\* Longest script over the literal alphabet (quote, semicolon, text, blank).
MaxQuoteLen == 7
\* Longest script over the line-comment alphabet.
MaxLineLen == 6
\* Longest script over the dollar-tag alphabet.
MaxDollarLen == 7
\* Longest text following an opening dollar tag.
MaxBodyLen == 4
\* Longest script of comment openers, closers and semicolons.
MaxBlockLen == 7

\* ------------------------------------------------------------ characters

\* Characters removed by str.strip().
Whitespace == {" ", "\t", "\n", "\r"}

\* Characters for which str.isalnum() is true.
Alnum ==
    {"a", "b", "c", "d", "e", "f", "g", "h", "i", "j", "k", "l", "m", "n",
     "o", "p", "q", "r", "s", "t", "u", "v", "w", "x", "y", "z",
     "A", "B", "C", "D", "E", "F", "G", "H", "I", "J", "K", "L", "M", "N",
     "O", "P", "Q", "R", "S", "T", "U", "V", "W", "X", "Y", "Z",
     "0", "1", "2", "3", "4", "5", "6", "7", "8", "9"}

\* sql[j].isalnum() or sql[j] == "_"
IsTagChar(c) == c \in Alnum \/ c = "_"

Range(s) == {s[k] : k \in 1..Len(s)}

SetMin(S) == CHOOSE x \in S : \A y \in S : x <= y

SetMax(S) == CHOOSE x \in S : \A y \in S : y <= x

\* "".join(buf).strip(): the text without its leading and trailing whitespace.
Strip(s) ==
    LET keep == {k \in 1..Len(s) : s[k] \notin Whitespace}
    IN  IF keep = {} THEN <<>> ELSE SubSeq(s, SetMin(keep), SetMax(keep))

\* ------------------------------------------------------------ inputs

SeqsUpTo(S, m) == UNION {[1..k -> S] : k \in 0..m}

ExampleSingleQuoted ==
    <<"S", "E", "L", "E", "C", "T", " ", "'", "a", ";", "b", "'", ";">>

ExampleEscapedQuote ==
    <<"I", "N", "S", "E", "R", "T", " ", "I", "N", "T", "O", " ", "t", " ",
      "V", "A", "L", "U", "E", "S", " ", "(", "'", "a", "'", "'", "b", ";",
      "c", "'", ")", ";">>

ExampleLineComment ==
    <<"S", "E", "L", "E", "C", "T", " ", "1", ";", " ", "-", "-", " ", "s",
      "t", "o", "p", ";", " ", "n", "o", "w", "\n", "S", "E", "L", "E", "C",
      "T", " ", "2", ";">>

ExampleLineCommentFirst ==
    <<"S", "E", "L", "E", "C", "T", " ", "1">>

ExampleLineCommentSecond ==
    <<"-", "-", " ", "s", "t", "o", "p", ";", " ", "n", "o", "w", "\n", "S",
      "E", "L", "E", "C", "T", " ", "2">>

ExampleDollarBody ==
    <<"C", "R", "E", "A", "T", "E", " ", "F", "U", "N", "C", "T", "I", "O",
      "N", " ", "f", "(", ")", " ", "R", "E", "T", "U", "R", "N", "S", " ",
      "v", "o", "i", "d", " ", "A", "S", " ", "$", "$", " ", "B", "E", "G",
      "I", "N", " ", "R", "A", "I", "S", "E", " ", "N", "O", "T", "I", "C",
      "E", " ", "'", "x", ";", "y", "'", ";", " ", "E", "N", "D", ";", " ",
      "$", "$", " ", "L", "A", "N", "G", "U", "A", "G", "E", " ", "p", "l",
      "p", "g", "s", "q", "l", ";">>

ExampleEmptyStatements ==
    <<";", ";", " ", " ", ";">>

ExampleQuotedIdentifier ==
    <<"/", "*", " ", "a", ";", "b", " ", "*", "/", " ", "S", "E", "L", "E",
      "C", "T", " ", "\"", "a", ";", "b", "\"", ";">>

ExamplePositionalParameters ==
    <<"S", "E", "L", "E", "C", "T", " ", "$", "1", ";", " ", "S", "E", "L",
      "E", "C", "T", " ", "$", "2">>

\* The scripts the specification's examples name.
Examples ==
    {ExampleSingleQuoted, ExampleEscapedQuote, ExampleLineComment,
     ExampleDollarBody, ExampleEmptyStatements, ExampleQuotedIdentifier}

GeneralAlphabet == {";", "'", "\"", "-", "/", "*", "$", "a", " ", "\n"}

QuoteAlphabet == {";", "'", "a", " "}

LineAlphabet == {";", "-", "\n", "\r", "a"}

DollarAlphabet == {";", "$", "a", "A"}

BodyAlphabet == {";", "'", "\"", "-", "/", "*", "$", "\n", "a"}

BlockAlphabet == {";", "/", "*", "a"}

OpeningTags == {<<"$", "$">>, <<"$", "a", "$">>}

GeneralScripts == SeqsUpTo(GeneralAlphabet, MaxLen) \cup Examples

QuoteScripts == SeqsUpTo(QuoteAlphabet, MaxQuoteLen) \cup Examples

LineScripts == SeqsUpTo(LineAlphabet, MaxLineLen) \cup Examples

DollarScripts == SeqsUpTo(DollarAlphabet, MaxDollarLen) \cup Examples

BlockScripts == SeqsUpTo(BlockAlphabet, MaxBlockLen) \cup Examples

ParamScripts == DollarScripts \cup {ExamplePositionalParameters}

BodyScripts ==
    {t \o b : t \in OpeningTags, b \in SeqsUpTo(BodyAlphabet, MaxBodyLen)}
        \cup Examples

\* Longest migration script main is run on, the examples apart.
MaxMainLen == 5

MainAlphabet == {";", "a"}

MainScripts == SeqsUpTo(MainAlphabet, MaxMainLen) \cup Examples

\* The keys of .env.local the database URL can be built from.
DbParts == {"SUPABASE_DB_HOST", "SUPABASE_DB_USER", "SUPABASE_DB_PASSWORD"}

\* What main can find: DATABASE_URL set in the environment or not; .env.local
\* present or not, its DATABASE_URL line absent, empty or set, and the
\* SUPABASE_DB_ keys it gives a value; the migration file present or not.
MainInputs ==
    [env_url : BOOLEAN, env_local : BOOLEAN,
     file_url : {"absent", "empty", "set"}, parts : SUBSET DbParts,
     migration : BOOLEAN]

\* ------------------------------------------------------------ state

VARIABLES
    sql,                \* the script text (argument of split_sql_statements)
    statements,         \* the statements emitted so far
    buf,                \* the statement in progress
    in_single,
    in_double,
    in_line_comment,
    in_block_comment,
    in_dollar,
    dollar_tag,
    i,                  \* scan index, 0-based
    pc,                 \* "idle": not called; "loop": scanning; "done": returned
    cuts,               \* history: the index of every ";" that flushed buf
    pass,               \* 1: the scan of the script; 2: the scan of its rejoined output
    first,              \* the statements the first pass returned (pass 2 only)
    mpc,                \* where main of apply_supabase_migration.py stands
    inputs,             \* what main finds: environment, .env.local, migration file
    database_url,       \* whether database_url holds a non-empty value
    idx,                \* the 1-based index of the statement in the for loop
    executed,           \* history: the indices passed to cur.execute, in order
    committed,          \* the statements the database applied (autocommit)
    printed,            \* the lines main printed
    conn,               \* "none", "open" or "closed"
    closes,             \* history: the number of conn.close() calls
    failed,             \* the index whose cur.execute raised, 0 when none did
    cpc,                \* where main of cleanup_old_vercel_deployments.py stands
    deployments,        \* the reply of list_deployments, most recent first
    pos,                \* the 1-based place in deployments of the loop's dep
    deleted,
    requests,           \* history: the ids a DELETE request was sent for
    dpc,                \* where main of deploy_full_stack.py stands
    config,             \* the DeployConfig
    written,            \* history: the files written, with the keys put in them
    dlog,               \* history: the steps main went through, with their end
    rc,                 \* the value main of deploy_full_stack.py returned
    epc,                \* where main of e2e_live_ingest_test.py stands
    args,               \* the flags of e2e_live_ingest_test.py
    posts,              \* history: the end of every ingest POST sent
    env_ok,
    redeploy_ok,
    polls,              \* history: the polls made, with what poll_until returned
    erc                 \* the value main of e2e_live_ingest_test.py returned

scannerVars ==
    <<sql, statements, buf, in_single, in_double, in_line_comment,
      in_block_comment, in_dollar, dollar_tag, i, pc, cuts>>

resplitVars == <<pass, first>>

mainVars ==
    <<mpc, inputs, database_url, idx, executed, committed, printed, conn,
      closes, failed>>

cleanupVars == <<cpc, deployments, pos, deleted, requests>>

deployVars == <<dpc, config, written, dlog, rc>>

e2eVars == <<epc, args, posts, env_ok, redeploy_ok, polls, erc>>

\* What the splitter never touches.
notScanner == <<resplitVars, mainVars, cleanupVars, deployVars, e2eVars>>

\* What main of apply_supabase_migration.py never touches, the splitter apart.
notMain == <<resplitVars, cleanupVars, deployVars, e2eVars>>

\* What the second call of the splitter never touches.
notResplit == <<mainVars, cleanupVars, deployVars, e2eVars>>

\* What main of cleanup_old_vercel_deployments.py never touches.
notCleanup == <<scannerVars, resplitVars, mainVars, deployVars, e2eVars>>

\* What main of deploy_full_stack.py never touches.
notDeploy == <<scannerVars, resplitVars, mainVars, cleanupVars, e2eVars>>

\* What main of e2e_live_ingest_test.py never touches.
notE2E == <<scannerVars, resplitVars, mainVars, cleanupVars, deployVars>>

vars == <<scannerVars, notScanner>>

\* dollar_tag = None; a tag holds at least its two "$".
None == <<>>

n == Len(sql)

ch == sql[i + 1]

nxt == IF i + 1 < n THEN sql[i + 2] ELSE ""

\* The environment main would find when it is not run.
NoInputs ==
    [env_url |-> FALSE, env_local |-> FALSE, file_url |-> "absent",
     parts |-> {}, migration |-> FALSE]

\* main of apply_supabase_migration.py is not run.
MainOff ==
    /\ mpc = "off"
    /\ inputs = NoInputs
    /\ database_url = FALSE
    /\ idx = 0
    /\ executed = <<>>
    /\ committed = <<>>
    /\ printed = <<>>
    /\ conn = "none"
    /\ closes = 0
    /\ failed = 0

\* main of cleanup_old_vercel_deployments.py is not run.
CleanupOff ==
    /\ cpc = "off"
    /\ deployments = <<>>
    /\ pos = 0
    /\ deleted = 0
    /\ requests = <<>>

\* The DeployConfig before parse_args built one. A value field is TRUE when
\* it holds a non-empty string; env_file tells whether the path lies under
\* REPO_ROOT; dry_run tells whether SKIP_COMMANDS is set.
NoConfig ==
    [db_url |-> FALSE, supabase_url |-> FALSE, supabase_anon |-> FALSE,
     supabase_service_role |-> FALSE, env_file |-> "inside",
     vercel_project |-> FALSE, vercel_token |-> FALSE,
     github_owner |-> FALSE, github_repo |-> FALSE, github_token |-> FALSE,
     skip_env |-> FALSE, skip_db |-> FALSE, skip_types |-> FALSE,
     skip_git |-> FALSE, skip_vercel |-> FALSE, dry_run |-> FALSE]

\* main has not returned.
NoReturn == -1

\* main of deploy_full_stack.py is not run.
DeployOff ==
    /\ dpc = "off"
    /\ config = NoConfig
    /\ written = {}
    /\ dlog = <<>>
    /\ rc = NoReturn

\* The flags before parse_args read them.
NoArgs == [ensure_vercel |-> FALSE, deploy |-> FALSE, no_publish |-> FALSE]

\* main of e2e_live_ingest_test.py is not run.
E2EOff ==
    /\ epc = "off"
    /\ args = NoArgs
    /\ posts = <<>>
    /\ env_ok = FALSE
    /\ redeploy_ok = FALSE
    /\ polls = <<>>
    /\ erc = NoReturn

\* split_sql_statements is not called.
ScannerOff ==
    /\ sql = <<>>
    /\ statements = <<>>
    /\ buf = <<>>
    /\ in_single = FALSE
    /\ in_double = FALSE
    /\ in_line_comment = FALSE
    /\ in_block_comment = FALSE
    /\ in_dollar = FALSE
    /\ dollar_tag = None
    /\ i = 0
    /\ pc = "idle"
    /\ cuts = <<>>
    /\ pass = 1
    /\ first = <<>>

InitScanner(scripts) ==
    /\ sql \in scripts
    /\ MainOff
    /\ CleanupOff
    /\ DeployOff
    /\ E2EOff
    /\ statements = <<>>
    /\ buf = <<>>
    /\ in_single = FALSE
    /\ in_double = FALSE
    /\ in_line_comment = FALSE
    /\ in_block_comment = FALSE
    /\ in_dollar = FALSE
    /\ dollar_tag = None
    /\ i = 0
    /\ pc = "loop"
    /\ cuts = <<>>
    /\ pass = 1
    /\ first = <<>>

InitMain ==
    /\ sql \in MainScripts
    /\ statements = <<>>
    /\ buf = <<>>
    /\ in_single = FALSE
    /\ in_double = FALSE
    /\ in_line_comment = FALSE
    /\ in_block_comment = FALSE
    /\ in_dollar = FALSE
    /\ dollar_tag = None
    /\ i = 0
    /\ pc = "idle"
    /\ cuts = <<>>
    /\ pass = 1
    /\ first = <<>>
    /\ mpc = "resolve"
    /\ inputs \in MainInputs
    /\ database_url = FALSE
    /\ idx = 0
    /\ executed = <<>>
    /\ committed = <<>>
    /\ printed = <<>>
    /\ conn = "none"
    /\ closes = 0
    /\ failed = 0
    /\ CleanupOff
    /\ DeployOff
    /\ E2EOff

Init == InitScanner(GeneralScripts)

InitQuote == InitScanner(QuoteScripts)

InitLine == InitScanner(LineScripts)

InitDollar == InitScanner(DollarScripts)

InitBody == InitScanner(BodyScripts)

InitParam == InitScanner(ParamScripts)

InitBlock == InitScanner(BlockScripts)

\* ------------------------------------------------------------ conditions

\* The inner while loop: the index of the first character at or after j
\* that is not a tag character (n when there is none).
RECURSIVE TagScan(_)
TagScan(j) == IF j < n /\ IsTagChar(sql[j + 1]) THEN TagScan(j + 1) ELSE j

\* if not in_single and not in_double and not in_dollar
OutsideQuotes == ~in_single /\ ~in_double /\ ~in_dollar

OpensLineComment == OutsideQuotes /\ ch = "-" /\ nxt = "-"

OpensBlockComment == OutsideQuotes /\ ch = "/" /\ nxt = "*"

\* Fault: a single quote is also taken as a quote inside a dollar-quoted body.
AtSingleQuote_IgnoresDollar == ~in_double /\ ch = "'"

AtSingleQuote == ~in_double /\ ~in_dollar /\ ch = "'"

\* Fault: a double quote is also taken as a quote inside a single-quoted
\* literal.
AtDoubleQuote_IgnoresSingle == ~in_dollar /\ ch = "\""

AtDoubleQuote == ~in_single /\ ~in_dollar /\ ch = "\""

\* Fault: the "$" that must end the tag is not looked for.
AtDollarTag_NoClosingDollar ==
    /\ ~in_single
    /\ ~in_double
    /\ ch = "$"
    /\ TagScan(i + 1) < n

AtDollarTag ==
    /\ ~in_single
    /\ ~in_double
    /\ ch = "$"
    /\ TagScan(i + 1) < n
    /\ sql[TagScan(i + 1) + 1] = "$"

\* Fault: the boundary test forgets the single-quoted literal.
AtSemicolon_IgnoresSingle == ~in_double /\ ~in_dollar /\ ch = ";"

\* Fault: the boundary test forgets the dollar-quoted body.
AtSemicolon_IgnoresDollar == ~in_single /\ ~in_double /\ ch = ";"

AtSemicolon == ~in_single /\ ~in_double /\ ~in_dollar /\ ch = ";"

\* The branch of the loop body taken at index i: the first test that holds.
Branch ==
    IF in_line_comment THEN "line_comment"
    ELSE IF in_block_comment THEN "block_comment"
    ELSE IF OpensLineComment THEN "open_line_comment"
    ELSE IF OpensBlockComment THEN "open_block_comment"
    ELSE IF AtSingleQuote THEN "single_quote"
    ELSE IF AtDoubleQuote THEN "double_quote"
    ELSE IF AtDollarTag THEN "dollar_tag"
    ELSE IF AtSemicolon THEN "semicolon"
    ELSE "append"

InLoop == pc = "loop" /\ i < n

\* ------------------------------------------------------------ actions

\* Fault: a carriage return ends the line comment too.
ScanLineComment_EndsOnCR ==
    /\ InLoop
    /\ Branch = "line_comment"
    /\ buf' = Append(buf, ch)
    /\ in_line_comment' = IF ch \in {"\n", "\r"} THEN FALSE ELSE in_line_comment
    /\ i' = i + 1
    /\ UNCHANGED notScanner
    /\ UNCHANGED <<sql, statements, in_single, in_double, in_block_comment,
                   in_dollar, dollar_tag, pc, cuts>>

ScanLineComment ==
    /\ InLoop
    /\ Branch = "line_comment"
    /\ buf' = Append(buf, ch)
    /\ in_line_comment' = IF ch = "\n" THEN FALSE ELSE in_line_comment
    /\ i' = i + 1
    /\ UNCHANGED notScanner
    /\ UNCHANGED <<sql, statements, in_single, in_double, in_block_comment,
                   in_dollar, dollar_tag, pc, cuts>>

\* Fault: the closing "/" of a block comment is consumed but not kept.
ScanBlockComment_DropsCloser ==
    /\ InLoop
    /\ Branch = "block_comment"
    /\ buf' = Append(buf, ch)
    /\ IF ch = "*" /\ nxt = "/"
       THEN /\ i' = i + 2
            /\ in_block_comment' = FALSE
       ELSE /\ i' = i + 1
            /\ UNCHANGED in_block_comment
    /\ UNCHANGED notScanner
    /\ UNCHANGED <<sql, statements, in_single, in_double, in_line_comment,
                   in_dollar, dollar_tag, pc, cuts>>

ScanBlockComment ==
    /\ InLoop
    /\ Branch = "block_comment"
    /\ IF ch = "*" /\ nxt = "/"
       THEN /\ buf' = Append(Append(buf, ch), nxt)
            /\ i' = i + 2
            /\ in_block_comment' = FALSE
       ELSE /\ buf' = Append(buf, ch)
            /\ i' = i + 1
            /\ UNCHANGED in_block_comment
    /\ UNCHANGED notScanner
    /\ UNCHANGED <<sql, statements, in_single, in_double, in_line_comment,
                   in_dollar, dollar_tag, pc, cuts>>

OpenLineComment ==
    /\ InLoop
    /\ Branch = "open_line_comment"
    /\ buf' = Append(Append(buf, ch), nxt)
    /\ i' = i + 2
    /\ in_line_comment' = TRUE
    /\ UNCHANGED notScanner
    /\ UNCHANGED <<sql, statements, in_single, in_double, in_block_comment,
                   in_dollar, dollar_tag, pc, cuts>>

\* Fault: only the "/" of the opener is consumed, so its "*" can start a
\* closer.
OpenBlockComment_OneChar ==
    /\ InLoop
    /\ Branch = "open_block_comment"
    /\ buf' = Append(buf, ch)
    /\ i' = i + 1
    /\ in_block_comment' = TRUE
    /\ UNCHANGED notScanner
    /\ UNCHANGED <<sql, statements, in_single, in_double, in_line_comment,
                   in_dollar, dollar_tag, pc, cuts>>

OpenBlockComment ==
    /\ InLoop
    /\ Branch = "open_block_comment"
    /\ buf' = Append(Append(buf, ch), nxt)
    /\ i' = i + 2
    /\ in_block_comment' = TRUE
    /\ UNCHANGED notScanner
    /\ UNCHANGED <<sql, statements, in_single, in_double, in_line_comment,
                   in_dollar, dollar_tag, pc, cuts>>

\* Fault: the escaped-quote branch continues without advancing the index.
ScanSingleQuote_EscapeNoAdvance ==
    /\ InLoop
    /\ Branch = "single_quote"
    /\ IF in_single
       THEN IF nxt = "'"
            THEN /\ buf' = Append(Append(buf, ch), nxt)
                 /\ UNCHANGED <<i, in_single>>
            ELSE /\ buf' = Append(buf, ch)
                 /\ in_single' = FALSE
                 /\ i' = i + 1
       ELSE /\ buf' = Append(buf, ch)
            /\ in_single' = TRUE
            /\ i' = i + 1
    /\ UNCHANGED notScanner
    /\ UNCHANGED <<sql, statements, in_double, in_line_comment,
                   in_block_comment, in_dollar, dollar_tag, pc, cuts>>

\* Fault: no escape handling, every quote inside a literal closes it.
ScanSingleQuote_NoEscape ==
    /\ InLoop
    /\ Branch = "single_quote"
    /\ buf' = Append(buf, ch)
    /\ in_single' = ~in_single
    /\ i' = i + 1
    /\ UNCHANGED notScanner
    /\ UNCHANGED <<sql, statements, in_double, in_line_comment,
                   in_block_comment, in_dollar, dollar_tag, pc, cuts>>

ScanSingleQuote ==
    /\ InLoop
    /\ Branch = "single_quote"
    /\ IF in_single
       THEN IF nxt = "'"
            THEN /\ buf' = Append(Append(buf, ch), nxt)
                 /\ i' = i + 2
                 /\ UNCHANGED in_single
            ELSE /\ buf' = Append(buf, ch)
                 /\ in_single' = FALSE
                 /\ i' = i + 1
       ELSE /\ buf' = Append(buf, ch)
            /\ in_single' = TRUE
            /\ i' = i + 1
    /\ UNCHANGED notScanner
    /\ UNCHANGED <<sql, statements, in_double, in_line_comment,
                   in_block_comment, in_dollar, dollar_tag, pc, cuts>>

\* Fault: inside the identifier a doubled double quote is an escape and
\* keeps it open.
ScanDoubleQuote_DoubledEscape ==
    /\ InLoop
    /\ Branch = "double_quote"
    /\ IF in_double /\ nxt = "\""
       THEN /\ buf' = buf \o <<ch, nxt>>
            /\ in_double' = in_double
            /\ i' = i + 2
       ELSE /\ buf' = Append(buf, ch)
            /\ in_double' = ~in_double
            /\ i' = i + 1
    /\ UNCHANGED notScanner
    /\ UNCHANGED <<sql, statements, in_single, in_line_comment,
                   in_block_comment, in_dollar, dollar_tag, pc, cuts>>

ScanDoubleQuote ==
    /\ InLoop
    /\ Branch = "double_quote"
    /\ buf' = Append(buf, ch)
    /\ in_double' = ~in_double
    /\ i' = i + 1
    /\ UNCHANGED notScanner
    /\ UNCHANGED <<sql, statements, in_single, in_line_comment,
                   in_block_comment, in_dollar, dollar_tag, pc, cuts>>

\* Fault: inside a body any dollar token closes it, whatever its text.
ScanDollarTag_ClosesOnAnyTag ==
    /\ InLoop
    /\ Branch = "dollar_tag"
    /\ LET j == TagScan(i + 1)
           tag == SubSeq(sql, i + 1, j + 1)
       IN  /\ buf' = buf \o tag
           /\ IF in_dollar
              THEN /\ in_dollar' = FALSE
                   /\ dollar_tag' = None
              ELSE /\ in_dollar' = TRUE
                   /\ dollar_tag' = tag
           /\ i' = j + 1
    /\ UNCHANGED notScanner
    /\ UNCHANGED <<sql, statements, in_single, in_double, in_line_comment,
                   in_block_comment, pc, cuts>>

ScanDollarTag ==
    /\ InLoop
    /\ Branch = "dollar_tag"
    /\ LET j == TagScan(i + 1)
           tag == SubSeq(sql, i + 1, j + 1)
       IN  /\ buf' = buf \o tag
           /\ IF in_dollar /\ dollar_tag = tag
              THEN /\ in_dollar' = FALSE
                   /\ dollar_tag' = None
              ELSE IF ~in_dollar
                   THEN /\ in_dollar' = TRUE
                        /\ dollar_tag' = tag
                   ELSE UNCHANGED <<in_dollar, dollar_tag>>
           /\ i' = j + 1
    /\ UNCHANGED notScanner
    /\ UNCHANGED <<sql, statements, in_single, in_double, in_line_comment,
                   in_block_comment, pc, cuts>>

\* Fault: the terminating ";" is kept as the last character of the statement.
FlushStatement_KeepsTerminator ==
    /\ InLoop
    /\ Branch = "semicolon"
    /\ statements' = Append(statements, Strip(Append(buf, ch)))
    /\ buf' = <<>>
    /\ i' = i + 1
    /\ cuts' = Append(cuts, i)
    /\ UNCHANGED notScanner
    /\ UNCHANGED <<sql, in_single, in_double, in_line_comment,
                   in_block_comment, in_dollar, dollar_tag, pc>>

\* Fault: the flush emits the statement even when it is empty.
FlushStatement_KeepsEmpty ==
    /\ InLoop
    /\ Branch = "semicolon"
    /\ statements' = Append(statements, Strip(buf))
    /\ buf' = <<>>
    /\ i' = i + 1
    /\ cuts' = Append(cuts, i)
    /\ UNCHANGED notScanner
    /\ UNCHANGED <<sql, in_single, in_double, in_line_comment,
                   in_block_comment, in_dollar, dollar_tag, pc>>

\* Fault: the flush inserts the statement at the head of the list.
FlushStatement_Prepends ==
    /\ InLoop
    /\ Branch = "semicolon"
    /\ LET statement == Strip(buf)
       IN  statements' = IF statement # <<>>
                         THEN <<statement>> \o statements
                         ELSE statements
    /\ buf' = <<>>
    /\ i' = i + 1
    /\ cuts' = Append(cuts, i)
    /\ UNCHANGED notScanner
    /\ UNCHANGED <<sql, in_single, in_double, in_line_comment,
                   in_block_comment, in_dollar, dollar_tag, pc>>

FlushStatement ==
    /\ InLoop
    /\ Branch = "semicolon"
    /\ LET statement == Strip(buf)
       IN  statements' = IF statement # <<>>
                         THEN Append(statements, statement)
                         ELSE statements
    /\ buf' = <<>>
    /\ i' = i + 1
    /\ cuts' = Append(cuts, i)
    /\ UNCHANGED notScanner
    /\ UNCHANGED <<sql, in_single, in_double, in_line_comment,
                   in_block_comment, in_dollar, dollar_tag, pc>>

AppendChar ==
    /\ InLoop
    /\ Branch = "append"
    /\ buf' = Append(buf, ch)
    /\ i' = i + 1
    /\ UNCHANGED notScanner
    /\ UNCHANGED <<sql, statements, in_single, in_double, in_line_comment,
                   in_block_comment, in_dollar, dollar_tag, pc, cuts>>

\* Fault: the tail is emitted only when the scan ended outside every context.
FlushTail_OnlyWhenClosed ==
    /\ pc = "loop"
    /\ ~(i < n)
    /\ LET tail == Strip(buf)
       IN  statements' =
               IF /\ tail # <<>>
                  /\ ~in_single
                  /\ ~in_double
                  /\ ~in_line_comment
                  /\ ~in_block_comment
                  /\ ~in_dollar
               THEN Append(statements, tail)
               ELSE statements
    /\ pc' = "done"
    /\ UNCHANGED notScanner
    /\ UNCHANGED <<sql, buf, in_single, in_double, in_line_comment,
                   in_block_comment, in_dollar, dollar_tag, i, cuts>>

\* Fault: the tail is emitted without being stripped.
FlushTail_NoStrip ==
    /\ pc = "loop"
    /\ ~(i < n)
    /\ statements' = IF buf # <<>> THEN Append(statements, buf) ELSE statements
    /\ pc' = "done"
    /\ UNCHANGED notScanner
    /\ UNCHANGED <<sql, buf, in_single, in_double, in_line_comment,
                   in_block_comment, in_dollar, dollar_tag, i, cuts>>

\* The loop has ended: flush what is left and return.
FlushTail ==
    /\ pc = "loop"
    /\ ~(i < n)
    /\ LET tail == Strip(buf)
       IN  statements' = IF tail # <<>>
                         THEN Append(statements, tail)
                         ELSE statements
    /\ pc' = "done"
    /\ UNCHANGED notScanner
    /\ UNCHANGED <<sql, buf, in_single, in_double, in_line_comment,
                   in_block_comment, in_dollar, dollar_tag, i, cuts>>

Next ==
    \/ ScanLineComment
    \/ ScanBlockComment
    \/ OpenLineComment
    \/ OpenBlockComment
    \/ ScanSingleQuote
    \/ ScanDoubleQuote
    \/ ScanDollarTag
    \/ FlushStatement
    \/ AppendChar
    \/ FlushTail

\* ";".join(out) + ";": the statements rejoined, with a trailing ";".
RECURSIVE JoinWith(_)
JoinWith(out) ==
    IF out = <<>> THEN <<>>
    ELSE IF Len(out) = 1 THEN Head(out)
    ELSE Head(out) \o <<";">> \o JoinWith(Tail(out))

Rejoin(out) == JoinWith(out) \o <<";">>

\* A second call of split_sql_statements, on the rejoined result of the first.
Resplit ==
    /\ pc = "done"
    /\ pass = 1
    /\ pass' = 2
    /\ first' = statements
    /\ sql' = Rejoin(statements)
    /\ statements' = <<>>
    /\ buf' = <<>>
    /\ in_single' = FALSE
    /\ in_double' = FALSE
    /\ in_line_comment' = FALSE
    /\ in_block_comment' = FALSE
    /\ in_dollar' = FALSE
    /\ dollar_tag' = None
    /\ i' = 0
    /\ pc' = "loop"
    /\ cuts' = <<>>
    /\ UNCHANGED notResplit

NextResplit == Next \/ Resplit

\* ------------------------------------------------------------ main

\* Lines 121-151: DATABASE_URL of the environment, else of .env.local, else
\* the URL built from the SUPABASE_DB_ parts when host, user and password
\* are all there.
\* Fault: the URL is built as soon as one of the parts is there.
MainResolveUrl_AnyPart ==
    /\ mpc = "resolve"
    /\ database_url' =
           \/ inputs.env_url
           \/ inputs.env_local /\ inputs.file_url = "set"
           \/ inputs.env_local /\ inputs.parts # {}
    /\ mpc' = "check_url"
    /\ UNCHANGED <<inputs, idx, executed, committed, printed, conn, closes,
                   failed>>
    /\ UNCHANGED <<scannerVars, notMain>>

MainResolveUrl ==
    /\ mpc = "resolve"
    /\ database_url' =
           \/ inputs.env_url
           \/ inputs.env_local /\ inputs.file_url = "set"
           \/ inputs.env_local /\ DbParts \subseteq inputs.parts
    /\ mpc' = "check_url"
    /\ UNCHANGED <<inputs, idx, executed, committed, printed, conn, closes,
                   failed>>
    /\ UNCHANGED <<scannerVars, notMain>>

\* Lines 153-156.
MainCheckUrl ==
    /\ mpc = "check_url"
    /\ mpc' = IF ~database_url THEN "exit" ELSE "check_migration"
    /\ UNCHANGED <<inputs, database_url, idx, executed, committed, printed,
                   conn, closes, failed>>
    /\ UNCHANGED <<scannerVars, notMain>>

\* Lines 158-159.
MainCheckMigration ==
    /\ mpc = "check_migration"
    /\ mpc' = IF ~inputs.migration THEN "exit" ELSE "split"
    /\ UNCHANGED <<inputs, database_url, idx, executed, committed, printed,
                   conn, closes, failed>>
    /\ UNCHANGED <<scannerVars, notMain>>

\* Lines 161-162: the call of split_sql_statements on the file's text.
MainCallSplit ==
    /\ mpc = "split"
    /\ pc = "idle"
    /\ pc' = "loop"
    /\ mpc' = "splitting"
    /\ UNCHANGED <<inputs, database_url, idx, executed, committed, printed,
                   conn, closes, failed>>
    /\ UNCHANGED <<sql, statements, buf, in_single, in_double, in_line_comment,
                   in_block_comment, in_dollar, dollar_tag, i, cuts>>
    /\ UNCHANGED notMain

\* Fault: the loop starts at the second statement.
MainConnect_SkipsFirst ==
    /\ mpc = "splitting"
    /\ pc = "done"
    /\ conn' = "open"
    /\ idx' = 2
    /\ mpc' = "exec"
    /\ UNCHANGED <<inputs, database_url, executed, committed, printed, closes,
                   failed>>
    /\ UNCHANGED <<scannerVars, notMain>>

\* Lines 164-169: the splitter has returned; connect, autocommit, open the
\* cursor and start the loop at idx = 1.
MainConnect ==
    /\ mpc = "splitting"
    /\ pc = "done"
    /\ conn' = "open"
    /\ idx' = 1
    /\ mpc' = "exec"
    /\ UNCHANGED <<inputs, database_url, executed, committed, printed, closes,
                   failed>>
    /\ UNCHANGED <<scannerVars, notMain>>

\* Line 164: psycopg2.connect raises; there is no connection to close.
MainConnectFails ==
    /\ mpc = "splitting"
    /\ pc = "done"
    /\ mpc' = "raised"
    /\ UNCHANGED <<inputs, database_url, idx, executed, committed, printed,
                   conn, closes, failed>>
    /\ UNCHANGED <<scannerVars, notMain>>

\* Line 170: cur.execute(stmt) returns; autocommit makes its effect durable.
MainExecuteOk ==
    /\ mpc = "exec"
    /\ idx <= Len(statements)
    /\ executed' = Append(executed, idx)
    /\ committed' = Append(committed, statements[idx])
    /\ mpc' = "print"
    /\ UNCHANGED <<inputs, database_url, idx, printed, conn, closes, failed>>
    /\ UNCHANGED <<scannerVars, notMain>>

\* Line 170: cur.execute(stmt) raises; control goes to the finally clause.
MainExecuteFails ==
    /\ mpc = "exec"
    /\ idx <= Len(statements)
    /\ executed' = Append(executed, idx)
    /\ failed' = idx
    /\ mpc' = "finally"
    /\ UNCHANGED <<inputs, database_url, idx, committed, printed, conn, closes>>
    /\ UNCHANGED <<scannerVars, notMain>>

\* Fault: the progress line counts from 0.
MainPrintOk_ZeroBased ==
    /\ mpc = "print"
    /\ printed' = Append(printed, <<"OK", idx - 1, Len(statements)>>)
    /\ idx' = idx + 1
    /\ mpc' = "exec"
    /\ UNCHANGED <<inputs, database_url, executed, committed, conn, closes,
                   failed>>
    /\ UNCHANGED <<scannerVars, notMain>>

\* Line 171, and the loop's next iteration.
MainPrintOk ==
    /\ mpc = "print"
    /\ printed' = Append(printed, <<"OK", idx, Len(statements)>>)
    /\ idx' = idx + 1
    /\ mpc' = "exec"
    /\ UNCHANGED <<inputs, database_url, executed, committed, conn, closes,
                   failed>>
    /\ UNCHANGED <<scannerVars, notMain>>

\* Fault: the connection is closed after the loop only, not when cur.execute
\* raised.
MainClose_NotOnError ==
    /\ \/ mpc = "exec" /\ idx > Len(statements)
       \/ mpc = "finally"
    /\ conn' = IF failed # 0 THEN conn ELSE "closed"
    /\ closes' = IF failed # 0 THEN closes ELSE closes + 1
    /\ mpc' = IF failed # 0 THEN "raised" ELSE "print_done"
    /\ UNCHANGED <<inputs, database_url, idx, executed, committed, printed,
                   failed>>
    /\ UNCHANGED <<scannerVars, notMain>>

\* Fault: the error is swallowed after the connection is closed.
MainClose_SwallowsError ==
    /\ \/ mpc = "exec" /\ idx > Len(statements)
       \/ mpc = "finally"
    /\ conn' = "closed"
    /\ closes' = closes + 1
    /\ mpc' = "print_done"
    /\ UNCHANGED <<inputs, database_url, idx, executed, committed, printed,
                   failed>>
    /\ UNCHANGED <<scannerVars, notMain>>

\* Lines 172-173: the finally clause, reached when the loop is exhausted and
\* when cur.execute raised; the exception, if any, then propagates.
MainClose ==
    /\ \/ mpc = "exec" /\ idx > Len(statements)
       \/ mpc = "finally"
    /\ conn' = "closed"
    /\ closes' = closes + 1
    /\ mpc' = IF failed # 0 THEN "raised" ELSE "print_done"
    /\ UNCHANGED <<inputs, database_url, idx, executed, committed, printed,
                   failed>>
    /\ UNCHANGED <<scannerVars, notMain>>

\* Line 175.
MainPrintDone ==
    /\ mpc = "print_done"
    /\ printed' = Append(printed, <<"Done">>)
    /\ mpc' = "returned"
    /\ UNCHANGED <<inputs, database_url, idx, executed, committed, conn, closes,
                   failed>>
    /\ UNCHANGED <<scannerVars, notMain>>

NextMain ==
    \/ Next
    \/ MainResolveUrl
    \/ MainCheckUrl
    \/ MainCheckMigration
    \/ MainCallSplit
    \/ MainConnect
    \/ MainConnectFails
    \/ MainExecuteOk
    \/ MainExecuteFails
    \/ MainPrintOk
    \/ MainClose
    \/ MainPrintDone

\* ------------------------------------------------------------ cleanup

\* KEEP_COUNT = 1
KEEP_COUNT == 1

\* Longest reply of list_deployments.
MaxDeployments == 3

Targets == {"production", "preview"}

\* dep.get("uid") or dep.get("id") of a deployment that has neither.
NoId == 0

\* The replies of GET /v6/deployments with state READY and order desc, no
\* target asked for: the READY deployments of the project, most recent
\* first, of either target; the deployment at place k has the id k, or none.
DeploymentLists ==
    {d \in UNION {[1..m -> [uid : 0..MaxDeployments, target : Targets]] :
                      m \in 0..MaxDeployments} :
        \A k \in DOMAIN d : d[k].uid \in {k, NoId}}

InitCleanup ==
    /\ ScannerOff
    /\ MainOff
    /\ DeployOff
    /\ E2EOff
    /\ cpc = "resolve"
    /\ deployments = <<>>
    /\ pos = 0
    /\ deleted = 0
    /\ requests = <<>>

\* Lines 112-119: the team and the project are resolved.
CleanupResolve ==
    /\ cpc = "resolve"
    /\ cpc' = "list"
    /\ UNCHANGED <<deployments, pos, deleted, requests>>
    /\ UNCHANGED notCleanup

\* Lines 112-119: one of the requests raises, or the project has no id.
CleanupResolveFails ==
    /\ cpc = "resolve"
    /\ cpc' = "raised"
    /\ UNCHANGED <<deployments, pos, deleted, requests>>
    /\ UNCHANGED notCleanup

\* Lines 121-126: the list is fetched; an empty one returns 0.
CleanupList ==
    /\ cpc = "list"
    /\ deployments' \in DeploymentLists
    /\ cpc' = IF deployments' = <<>> THEN "returned" ELSE "keep"
    /\ UNCHANGED <<pos, deleted, requests>>
    /\ UNCHANGED notCleanup

\* Lines 128-135: keep = deployments[:KEEP_COUNT]; the loop is over
\* deployments[KEEP_COUNT:].
CleanupKeep ==
    /\ cpc = "keep"
    /\ pos' = KEEP_COUNT + 1
    /\ deleted' = 0
    /\ cpc' = "delete"
    /\ UNCHANGED <<deployments, requests>>
    /\ UNCHANGED notCleanup

\* Lines 135-138: a deployment without uid and id is passed over.
CleanupSkipNoId ==
    /\ cpc = "delete"
    /\ pos <= Len(deployments)
    /\ deployments[pos].uid = NoId
    /\ pos' = pos + 1
    /\ UNCHANGED <<cpc, deployments, deleted, requests>>
    /\ UNCHANGED notCleanup

\* Lines 135-141: the DELETE request for dep_id is sent and answered.
CleanupDelete ==
    /\ cpc = "delete"
    /\ pos <= Len(deployments)
    /\ deployments[pos].uid # NoId
    /\ requests' = Append(requests, deployments[pos].uid)
    /\ deleted' = deleted + 1
    /\ pos' = pos + 1
    /\ UNCHANGED <<cpc, deployments>>
    /\ UNCHANGED notCleanup

\* Lines 140, 101-105: the DELETE request is sent and fails; the
\* RuntimeError leaves main.
CleanupDeleteFails ==
    /\ cpc = "delete"
    /\ pos <= Len(deployments)
    /\ deployments[pos].uid # NoId
    /\ requests' = Append(requests, deployments[pos].uid)
    /\ cpc' = "raised"
    /\ UNCHANGED <<deployments, pos, deleted>>
    /\ UNCHANGED notCleanup

\* Lines 143-144.
CleanupReturn ==
    /\ cpc = "delete"
    /\ pos > Len(deployments)
    /\ cpc' = "returned"
    /\ UNCHANGED <<deployments, pos, deleted, requests>>
    /\ UNCHANGED notCleanup

NextCleanup ==
    \/ CleanupResolve
    \/ CleanupResolveFails
    \/ CleanupList
    \/ CleanupKeep
    \/ CleanupSkipNoId
    \/ CleanupDelete
    \/ CleanupDeleteFails
    \/ CleanupReturn

\* ------------------------------------------------------------ deploy

\* What parse_args can build from the flags and the --config-file values.
DeployConfigs ==
    [db_url : BOOLEAN, supabase_url : BOOLEAN, supabase_anon : BOOLEAN,
     supabase_service_role : BOOLEAN, env_file : {"inside", "outside"},
     vercel_project : BOOLEAN, vercel_token : BOOLEAN,
     github_owner : BOOLEAN, github_repo : BOOLEAN, github_token : BOOLEAN,
     skip_env : BOOLEAN, skip_db : BOOLEAN, skip_types : BOOLEAN,
     skip_git : BOOLEAN, skip_vercel : BOOLEAN, dry_run : BOOLEAN]

\* The keys whose values are secrets.
SecretKeys ==
    {"SUPABASE_SERVICE_ROLE_KEY", "SUPABASE_DB_URL", "VERCEL_TOKEN",
     "GITHUB_TOKEN"}

\* The steps of main, in the order of lines 412-416.
Steps == <<"env", "db", "types", "git", "vercel">>

InitDeploy ==
    /\ ScannerOff
    /\ MainOff
    /\ CleanupOff
    /\ E2EOff
    /\ dpc = "parse"
    /\ config = NoConfig
    /\ written = {}
    /\ dlog = <<>>
    /\ rc = NoReturn

\* except StepError: return 1 (lines 421-423).
ReturnOne ==
    /\ dpc' = "returned"
    /\ rc' = 1

\* Fault: a StepError is printed and main goes on to the next call.
Finish_GoesOnAfterError(step, end, nextpc) ==
    /\ dlog' = Append(dlog, <<step, end>>)
    /\ IF end = "crashed"
       THEN dpc' = "raised" /\ rc' = rc
       ELSE dpc' = nextpc /\ rc' = rc

\* A handler ends: skipped or completed, main goes on to the next call; a
\* StepError ends main with 1; any other exception leaves main uncaught.
Finish(step, end, nextpc) ==
    /\ dlog' = Append(dlog, <<step, end>>)
    /\ IF end = "failed"
       THEN ReturnOne
       ELSE IF end = "crashed"
            THEN dpc' = "raised" /\ rc' = rc
            ELSE dpc' = nextpc /\ rc' = rc

\* run: with SKIP_COMMANDS set the command is not run and run returns;
\* otherwise the command succeeds or run raises StepError (lines 124-162).
RunEnds == IF config.dry_run THEN {"completed"} ELSE {"completed", "failed"}

\* Line 387: parse_args returns the configuration.
DeployParseArgs ==
    /\ dpc = "parse"
    /\ config' \in DeployConfigs
    /\ dpc' = "ensure"
    /\ UNCHANGED <<written, dlog, rc>>
    /\ UNCHANGED notDeploy

\* Lines 351-352, 106-119: the --config-file is missing or has no key.
DeployParseFails ==
    /\ dpc = "parse"
    /\ ReturnOne
    /\ UNCHANGED <<config, written, dlog>>
    /\ UNCHANGED notDeploy

\* Lines 388, 165-173: every dependency is there.
DeployEnsure ==
    /\ dpc = "ensure"
    /\ ~(config.vercel_project /\ ~config.vercel_token)
    /\ ~(config.github_repo /\ ~config.github_owner)
    /\ dpc' = "prompt"
    /\ UNCHANGED <<config, written, dlog, rc>>
    /\ UNCHANGED notDeploy

\* Lines 166-171: configure_vercel_env.py is missing (it can be, whatever
\* the configuration), the Vercel token is, or the GitHub owner is.
DeployEnsureFails ==
    /\ dpc = "ensure"
    /\ ReturnOne
    /\ UNCHANGED <<config, written, dlog>>
    /\ UNCHANGED notDeploy

\* The values of lines 390-410 that are missing and are neither in the
\* environment: prompt_secret asks for them.
Prompted ==
    (IF config.skip_env THEN {}
     ELSE {k \in {"supabase_url", "supabase_anon", "supabase_service_role"} :
              ~config[k]})
        \cup (IF config.db_url THEN {} ELSE {"db_url"})
        \cup (IF ~config.skip_vercel /\ ~config.vercel_token
                   /\ config.vercel_project
              THEN {"vercel_token"} ELSE {})
        \cup (IF ~config.skip_git /\ config.github_repo
                   /\ ~config.github_token
              THEN {"github_token"} ELSE {})

\* Lines 390-410: every value asked for is given; VERCEL_TOKEN of the
\* environment, when there is one, fills a missing vercel_token.
DeployPrompts ==
    /\ dpc = "prompt"
    /\ \E env_token \in BOOLEAN :
           config' =
               [k \in DOMAIN config |->
                   IF k \in Prompted THEN TRUE
                   ELSE IF k = "vercel_token" /\ ~config.skip_vercel
                        THEN config.vercel_token \/ env_token
                        ELSE config[k]]
    /\ dpc' = "env"
    /\ UNCHANGED <<written, dlog, rc>>
    /\ UNCHANGED notDeploy

\* Lines 80-95: a value asked for is left empty.
DeployPromptFails ==
    /\ dpc = "prompt"
    /\ Prompted # {}
    /\ ReturnOne
    /\ UNCHANGED <<config, written, dlog>>
    /\ UNCHANGED notDeploy

\* The keys write_env_file puts in the file: those with a value (lines
\* 184-189, 100-103).
EnvFileKeys ==
    {"NEXT_PUBLIC_SUPABASE_URL", "NEXT_PUBLIC_SUPABASE_ANON_KEY"}
        \cup (IF config.supabase_service_role
              THEN {"SUPABASE_SERVICE_ROLE_KEY"} ELSE {})

\* Lines 412, 176-192: handle_env_sync. relative_to(REPO_ROOT) of line 191
\* raises ValueError for a path outside the repository, before the write.
HandleEnvSync ==
    /\ dpc = "env"
    /\ IF config.skip_env
       THEN Finish("env", "skipped", "db") /\ UNCHANGED written
       ELSE IF ~(config.supabase_url /\ config.supabase_anon)
            THEN Finish("env", "failed", "db") /\ UNCHANGED written
            ELSE IF config.env_file = "outside"
                 THEN Finish("env", "crashed", "db") /\ UNCHANGED written
                 ELSE /\ written' = written \cup
                             {[path |-> "env_file", in_repo |-> TRUE,
                               keys |-> EnvFileKeys]}
                      /\ Finish("env", "completed", "db")
    /\ UNCHANGED config
    /\ UNCHANGED notDeploy

\* Lines 413, 195-212: handle_db_migration.
HandleDbMigration ==
    /\ dpc = "db"
    /\ IF config.skip_db
       THEN Finish("db", "skipped", "types")
       ELSE IF ~config.db_url
            THEN Finish("db", "failed", "types")
            ELSE \E end \in RunEnds : Finish("db", end, "types")
    /\ UNCHANGED <<config, written>>
    /\ UNCHANGED notDeploy

\* Lines 414, 215-249: handle_types_generation. The types file is opened
\* for writing before the command runs; the command is run by
\* subprocess.run itself, which raises FileNotFoundError without npx.
HandleTypesGeneration ==
    /\ dpc = "types"
    /\ IF config.skip_types
       THEN Finish("types", "skipped", "git") /\ UNCHANGED written
       ELSE IF ~config.db_url
            THEN Finish("types", "failed", "git") /\ UNCHANGED written
            ELSE /\ written' = written \cup
                        {[path |-> "database.types.ts", in_repo |-> TRUE,
                          keys |-> {}]}
                 /\ \E end \in RunEnds \cup
                           (IF config.dry_run THEN {} ELSE {"crashed"}) :
                        Finish("types", end, "git")
    /\ UNCHANGED config
    /\ UNCHANGED notDeploy

\* Lines 415, 252-270: handle_git_push.
HandleGitPush ==
    /\ dpc = "git"
    /\ IF config.skip_git
       THEN Finish("git", "skipped", "vercel")
       ELSE IF config.github_repo /\ config.github_owner
                   /\ ~config.github_token
            THEN Finish("git", "failed", "vercel")
            ELSE \E end \in RunEnds : Finish("git", end, "vercel")
    /\ UNCHANGED <<config, written>>
    /\ UNCHANGED notDeploy

\* Lines 416, 273-305: handle_vercel_env.
HandleVercelEnv ==
    /\ dpc = "vercel"
    /\ IF config.skip_vercel \/ ~config.vercel_project
       THEN Finish("vercel", "skipped", "success")
       ELSE \E end \in RunEnds : Finish("vercel", end, "success")
    /\ UNCHANGED <<config, written>>
    /\ UNCHANGED notDeploy

\* Lines 418-419.
DeployReturn ==
    /\ dpc = "success"
    /\ dpc' = "returned"
    /\ rc' = 0
    /\ UNCHANGED <<config, written, dlog>>
    /\ UNCHANGED notDeploy

NextDeploy ==
    \/ DeployParseArgs
    \/ DeployParseFails
    \/ DeployEnsure
    \/ DeployEnsureFails
    \/ DeployPrompts
    \/ DeployPromptFails
    \/ HandleEnvSync
    \/ HandleDbMigration
    \/ HandleTypesGeneration
    \/ HandleGitPush
    \/ HandleVercelEnv
    \/ DeployReturn

\* ------------------------------------------------------------ e2e

\* The flags of the command line that reach the ingest request.
E2EArgs == [ensure_vercel : BOOLEAN, deploy : BOOLEAN, no_publish : BOOLEAN]

\* The status codes urlopen raises HTTPError for, a few of them.
ErrorStatuses == {400, 401, 403, 500}

\* How http_json can end: with the decoded reply; with HTTPError for an
\* error status; with URLError when the server cannot be reached; with
\* another exception (a timeout while reading, a reply that is no JSON).
Replied == [kind |-> "ok", status |-> 200]

HttpErrors == [kind : {"HTTPError"}, status : ErrorStatuses]

UrlError == [kind |-> "URLError", status |-> 0]

OtherError == [kind |-> "other", status |-> 0]

\* What poll_until returns: a duration, or None at the deadline.
PollEnds == {"seen", "None"}

InitE2E ==
    /\ ScannerOff
    /\ MainOff
    /\ CleanupOff
    /\ DeployOff
    /\ epc = "start"
    /\ args = NoArgs
    /\ posts = <<>>
    /\ env_ok = FALSE
    /\ redeploy_ok = FALSE
    /\ polls = <<>>
    /\ erc = NoReturn

\* Lines 248-293: the flags are parsed, the secret is there, the payload is
\* built.
E2EStart ==
    /\ epc = "start"
    /\ args' \in E2EArgs
    /\ epc' = "post"
    /\ UNCHANGED <<posts, env_ok, redeploy_ok, polls, erc>>
    /\ UNCHANGED notE2E

\* Lines 268, 85-96: no ADMIN_API_SECRET is given; RuntimeError leaves main.
E2EStartFails ==
    /\ epc = "start"
    /\ epc' = "raised"
    /\ UNCHANGED <<args, posts, env_ok, redeploy_ok, polls, erc>>
    /\ UNCHANGED notE2E

\* Lines 295-297, 335: the ingest POST is answered.
E2EPost ==
    /\ epc = "post"
    /\ posts' = Append(posts, Replied)
    /\ epc' = "poll_search"
    /\ UNCHANGED <<args, env_ok, redeploy_ok, polls, erc>>
    /\ UNCHANGED notE2E

\* Lines 297-301, 328-330: the ingest POST raises HTTPError; a 401 with
\* --ensure-vercel goes on to the repair, anything else returns 1.
E2EPostHttpError ==
    /\ epc = "post"
    /\ \E e \in HttpErrors :
           /\ posts' = Append(posts, e)
           /\ IF e.status = 401 /\ args.ensure_vercel
              THEN epc' = "ensure" /\ erc' = erc
              ELSE epc' = "returned" /\ erc' = 1
    /\ UNCHANGED <<args, env_ok, redeploy_ok, polls>>
    /\ UNCHANGED notE2E

\* Lines 297, 331-333: the ingest POST raises URLError.
E2EPostUrlError ==
    /\ epc = "post"
    /\ posts' = Append(posts, UrlError)
    /\ epc' = "returned"
    /\ erc' = 1
    /\ UNCHANGED <<args, env_ok, redeploy_ok, polls>>
    /\ UNCHANGED notE2E

\* Line 297: the ingest POST raises an exception that is neither HTTPError
\* nor URLError; no except clause takes it and it leaves main.
E2EPostOtherError ==
    /\ epc = "post"
    /\ posts' = Append(posts, OtherError)
    /\ epc' = "raised"
    /\ UNCHANGED <<args, env_ok, redeploy_ok, polls, erc>>
    /\ UNCHANGED notE2E

\* Lines 303, 182-201: ensure_vercel_env returns False without a token or a
\* project id, True after both variables were set.
E2EEnsureVercelEnv ==
    /\ epc = "ensure"
    /\ env_ok' \in BOOLEAN
    /\ epc' = "redeploy"
    /\ UNCHANGED <<args, posts, redeploy_ok, polls, erc>>
    /\ UNCHANGED notE2E

\* Lines 199-200, 158, 179: a request of set_vercel_env_var to the Vercel
\* API raises (a token the API refuses, say); nothing in ensure_vercel_env
\* or in main takes the exception.
E2EEnsureVercelEnvRaises ==
    /\ epc = "ensure"
    /\ epc' = "raised"
    /\ UNCHANGED <<args, posts, env_ok, redeploy_ok, polls, erc>>
    /\ UNCHANGED notE2E

\* Lines 304-305, 314-327, 204-219: trigger_redeploy returns False without
\* a hook or when the hook request raises, True otherwise; the POST is
\* retried when both repairs succeeded, else main returns 1.
E2ETriggerRedeploy ==
    /\ epc = "redeploy"
    /\ redeploy_ok' \in BOOLEAN
    /\ IF env_ok /\ redeploy_ok'
       THEN epc' = "retry" /\ erc' = erc
       ELSE epc' = "returned" /\ erc' = 1
    /\ UNCHANGED <<args, posts, env_ok, polls>>
    /\ UNCHANGED notE2E

\* Lines 306-310, 335: the second ingest POST is answered.
E2ERetry ==
    /\ epc = "retry"
    /\ posts' = Append(posts, Replied)
    /\ epc' = "poll_search"
    /\ UNCHANGED <<args, env_ok, redeploy_ok, polls, erc>>
    /\ UNCHANGED notE2E

\* Lines 309, 311-313: the second ingest POST raises, whatever the
\* exception.
E2ERetryFails ==
    /\ epc = "retry"
    /\ \E e \in HttpErrors \cup {UrlError, OtherError} :
           posts' = Append(posts, e)
    /\ epc' = "returned"
    /\ erc' = 1
    /\ UNCHANGED <<args, env_ok, redeploy_ok, polls>>
    /\ UNCHANGED notE2E

\* Line 354, 232-244: the search endpoint is polled until the item is seen
\* or the deadline passes.
E2EPollSearch ==
    /\ epc = "poll_search"
    /\ \E end \in PollEnds : polls' = Append(polls, <<"search", end>>)
    /\ epc' = "poll_detail"
    /\ UNCHANGED <<args, posts, env_ok, redeploy_ok, erc>>
    /\ UNCHANGED notE2E

\* Line 355: the detail page is polled likewise.
E2EPollDetail ==
    /\ epc = "poll_detail"
    /\ \E end \in PollEnds : polls' = Append(polls, <<"detail", end>>)
    /\ epc' = "report"
    /\ UNCHANGED <<args, posts, env_ok, redeploy_ok, erc>>
    /\ UNCHANGED notE2E

\* Lines 357-374.
E2EReport ==
    /\ epc = "report"
    /\ epc' = "returned"
    /\ erc' = 0
    /\ UNCHANGED <<args, posts, env_ok, redeploy_ok, polls>>
    /\ UNCHANGED notE2E

NextE2E ==
    \/ E2EStart
    \/ E2EStartFails
    \/ E2EPost
    \/ E2EPostHttpError
    \/ E2EPostUrlError
    \/ E2EPostOtherError
    \/ E2EEnsureVercelEnv
    \/ E2EEnsureVercelEnvRaises
    \/ E2ETriggerRedeploy
    \/ E2ERetry
    \/ E2ERetryFails
    \/ E2EPollSearch
    \/ E2EPollDetail
    \/ E2EReport

\* ------------------------------------------------------------ specifications

Spec == Init /\ [][Next]_vars

SpecCleanup == InitCleanup /\ [][NextCleanup]_vars

SpecDeploy == InitDeploy /\ [][NextDeploy]_vars

SpecE2E == InitE2E /\ [][NextE2E]_vars

SpecResplit == Init /\ [][NextResplit]_vars

\* The loop is sequential code: a step that can be taken is taken.
SpecFair == Init /\ [][Next]_vars /\ WF_vars(Next)

SpecMain == InitMain /\ [][NextMain]_vars

\* main is sequential code: a step that can be taken is taken.
SpecMainFair == InitMain /\ [][NextMain]_vars /\ WF_vars(NextMain)

SpecQuote == InitQuote /\ [][Next]_vars

SpecLine == InitLine /\ [][Next]_vars

SpecDollar == InitDollar /\ [][Next]_vars

SpecBody == InitBody /\ [][Next]_vars

SpecParam == InitParam /\ [][Next]_vars

SpecBlock == InitBlock /\ [][Next]_vars

\* ------------------------------------------------------------ properties

\* The Normal scan state: no lexical context is open.
Normal ==
    /\ ~in_single
    /\ ~in_double
    /\ ~in_line_comment
    /\ ~in_block_comment
    /\ ~in_dollar

\* This step flushed the buffer as a statement.
FlushedHere ==
    /\ buf' = <<>>
    /\ i' = i + 1
    /\ statements' = IF Strip(buf) # <<>>
                     THEN Append(statements, Strip(buf))
                     ELSE statements

\* The indices (0-based) of the semicolons that were statement boundaries.
CutSet == Range(cuts)

\* The k-th chunk of the script: the text between the (k-1)-th and the k-th
\* top-level semicolon (script start and script end at the two ends).
ChunkStart(k) == IF k = 1 THEN 0 ELSE cuts[k - 1] + 1

ChunkEnd(k) == IF k <= Len(cuts) THEN cuts[k] ELSE n

Chunk(k) == SubSeq(sql, ChunkStart(k) + 1, ChunkEnd(k))

IsNonEmpty(s) == s # <<>>

\* The stripped, non-empty ones among the first m chunks, in order.
StrippedChunks(m) ==
    SelectSeq([k \in 1..m |-> Strip(Chunk(k))], IsNonEmpty)

\* The chunks that are closed: all of them once the scan has returned.
ClosedChunks == IF pc = "done" THEN Len(cuts) + 1 ELSE Len(cuts)

\* A semicolon of the script that was read and was no boundary.
HasInnerSemicolon ==
    \E q \in 0..(i - 1) : sql[q + 1] = ";" /\ q \notin CutSet

\* C1: a ";" ends the current statement if and only if it is read in Normal
\* state: read in Normal state it flushes the buffer and is not appended;
\* read in any other state it is appended and flushes nothing; no step
\* flushes without reading a ";" in Normal state; and a ";" is never consumed
\* as the second character of a two-character token or inside a tag.
C1_Step ==
    InLoop =>
        /\ (ch = ";" /\ Normal) => FlushedHere
        /\ (ch = ";" /\ ~Normal) =>
               (buf' = Append(buf, ";") /\ statements' = statements)
        /\ (buf' = <<>> \/ statements' # statements) => (ch = ";" /\ Normal)
        /\ \A k \in (i + 1)..(i' - 1) : sql[k + 1] # ";"

C1_SemicolonBoundaryIffNormal == [][C1_Step]_vars

C1_Witness ==
    /\ pc = "done"
    /\ HasInnerSemicolon
    /\ \E p \in CutSet : sql[p + 1] = ";"

\* C2: every returned statement is the stripped text of one chunk of the
\* script (the contiguous text between two consecutive top-level semicolons,
\* script start or script end), and the buffer is exactly the text read since
\* the last top-level semicolon: no character is dropped, duplicated or
\* reordered.
C2_StatementsAreChunks ==
    /\ i <= n
    /\ \A k \in 1..Len(cuts) :
           /\ cuts[k] < i
           /\ sql[cuts[k] + 1] = ";"
           /\ k > 1 => cuts[k - 1] < cuts[k]
    /\ buf = SubSeq(sql, ChunkStart(Len(cuts) + 1) + 1, i)
    /\ statements = StrippedChunks(ClosedChunks)

C2_Witness ==
    /\ pc = "done"
    /\ Len(statements) >= 2
    /\ HasInnerSemicolon

\* C3: every returned statement is non-empty and neither starts nor ends
\* with whitespace; a chunk that is empty or all whitespace contributes no
\* statement, so there are as many statements as chunks holding a
\* non-whitespace character, and ";;  ;" yields the empty list.
C3_NonEmptyTrimmed ==
    /\ \A k \in 1..Len(statements) :
           /\ statements[k] # <<>>
           /\ statements[k][1] \notin Whitespace
           /\ statements[k][Len(statements[k])] \notin Whitespace
    /\ Len(statements) =
           Cardinality({k \in 1..ClosedChunks :
                           ~(Range(Chunk(k)) \subseteq Whitespace)})
    /\ (pc = "done" /\ sql = ExampleEmptyStatements) => statements = <<>>

C3_Witness ==
    /\ pc = "done"
    /\ Len(cuts) >= 2
    /\ Len(statements) = 1
    /\ \E k \in 1..(Len(cuts) + 1) : Chunk(k) # <<>> /\ Strip(Chunk(k)) = <<>>

\* The characters that can open a lexical context.
ContextOpeners == {"'", "\"", "-", "/", "$"}

AllChunksNonEmpty == \A k \in 1..(Len(cuts) + 1) : Strip(Chunk(k)) # <<>>

\* C4: when the N top-level semicolons of a script separate N+1 chunks that
\* are all non-empty after stripping, exactly N+1 statements are returned and
\* the k-th is the stripped k-th chunk; in a script without any character
\* that opens a context every semicolon is top-level.
C4_OneStatementPerChunk ==
    pc = "done" =>
        /\ AllChunksNonEmpty =>
               /\ Len(statements) = Len(cuts) + 1
               /\ \A k \in 1..(Len(cuts) + 1) : statements[k] = Strip(Chunk(k))
        /\ Range(sql) \cap ContextOpeners = {} =>
               CutSet = {p \in 0..(n - 1) : sql[p + 1] = ";"}

C4_Witness ==
    /\ pc = "done"
    /\ AllChunksNonEmpty
    /\ Len(cuts) = 2
    /\ statements[1] # statements[2]
    /\ HasInnerSemicolon

\* C5: a script without any ";" yields exactly one statement, the whole
\* stripped script, or no statement when the script is empty or all
\* whitespace.
C5_NoSemicolon ==
    (pc = "done" /\ ";" \notin Range(sql)) =>
        statements = IF Strip(sql) = <<>> THEN <<>> ELSE <<Strip(sql)>>

C5_Witness ==
    /\ pc = "done"
    /\ ";" \notin Range(sql)
    /\ in_single
    /\ Len(statements) = 1
    /\ statements[1] # sql

\* The text without its last character.
Front(s) == SubSeq(s, 1, Len(s) - 1)

\* The script, stripped, is one statement ended by its only top-level ";":
\* it holds one single-quoted literal with a ";" inside, no other quote, no
\* other ";" and no character that opens another context.
SingleLiteralStatement ==
    LET t == Strip(sql)
    IN  /\ Len(t) >= 4
        /\ t[Len(t)] = ";"
        /\ Range(t) \cap {"\"", "-", "/", "$"} = {}
        /\ \E a, b \in 1..(Len(t) - 1) :
               /\ a < b
               /\ {k \in 1..Len(t) : t[k] = "'"} = {a, b}
               /\ \E k \in (a + 1)..(b - 1) : t[k] = ";"
               /\ \A k \in 1..(Len(t) - 1) : t[k] = ";" => (a < k /\ k < b)

\* C6, as stated: a script made of a single statement that holds a
\* single-quoted literal with an interior ";" and is ended by a ";" yields
\* exactly one statement, equal to the stripped input.
C6_EqualsTrimmedInput ==
    (pc = "done" /\ SingleLiteralStatement) => statements = <<Strip(sql)>>

\* C6, amended: such a script yields exactly one statement, equal to the
\* stripped input without its terminating ";" (stripped again).
C6_EqualsInputWithoutTerminator ==
    (pc = "done" /\ SingleLiteralStatement) =>
        statements = <<Strip(Front(Strip(sql)))>>

C6_Witness ==
    /\ pc = "done"
    /\ SingleLiteralStatement
    /\ sql = ExampleSingleQuoted
    /\ Len(statements) = 1

\* C7: a single quote read in Normal state opens a literal; inside it a
\* quote followed by a quote is appended as two characters and the literal
\* stays open, a quote followed by anything else (or by the end of the
\* script) closes it, every other character (a ";" too) is appended and
\* leaves it open, and no step inside the literal emits a statement; the
\* script INSERT INTO t VALUES ('a''b;c'); yields one statement.
C7_Step ==
    InLoop =>
        /\ (Normal /\ ch = "'") =>
               (in_single' /\ i' = i + 1 /\ buf' = Append(buf, "'"))
        /\ in_single =>
               /\ (ch = "'" /\ nxt = "'") =>
                      /\ in_single'
                      /\ i' = i + 2
                      /\ buf' = buf \o <<"'", "'">>
               /\ (ch = "'" /\ nxt # "'") =>
                      (Normal' /\ i' = i + 1 /\ buf' = Append(buf, "'"))
               /\ ch # "'" =>
                      (in_single' /\ i' = i + 1 /\ buf' = Append(buf, ch))
               /\ statements' = statements
               /\ cuts' = cuts

C7_EscapedQuoteKeepsLiteralOpen ==
    /\ [][C7_Step]_vars
    /\ [](pc = "done" /\ sql = ExampleEscapedQuote =>
              statements = <<Front(ExampleEscapedQuote)>>)

C7_Witness ==
    /\ pc = "done"
    /\ sql = ExampleEscapedQuote
    /\ Len(statements) = 1
    /\ HasInnerSemicolon

\* C8: "--" read in Normal state opens a line comment; inside it every
\* character is appended and emits nothing, a "\n" returns to Normal and any
\* other character (a "\r", a ";") leaves the comment open; the script
\* SELECT 1; -- stop; now\nSELECT 2; yields the two statements SELECT 1 and
\* -- stop; now\nSELECT 2.
C8_Step ==
    InLoop =>
        /\ (Normal /\ ch = "-" /\ nxt = "-") =>
               /\ in_line_comment'
               /\ i' = i + 2
               /\ buf' = buf \o <<"-", "-">>
               /\ statements' = statements
        /\ in_line_comment =>
               /\ buf' = Append(buf, ch)
               /\ i' = i + 1
               /\ statements' = statements
               /\ cuts' = cuts
               /\ ch = "\n" => Normal'
               /\ ch # "\n" => in_line_comment'

C8_LineCommentEndsAtNewline ==
    /\ [][C8_Step]_vars
    /\ [](pc = "done" /\ sql = ExampleLineComment =>
              statements = <<ExampleLineCommentFirst, ExampleLineCommentSecond>>)

C8_Witness ==
    /\ pc = "done"
    /\ sql = <<"-", "-", "\r", ";", "\n", ";">>
    /\ cuts = <<5>>
    /\ statements = <<(<<"-", "-", "\r", ";">>)>>

\* C9: inside a dollar-quoted body every character other than "$" (a ";", a
\* quote, a "-", a "/", a "*") is appended alone and changes no scan state;
\* no step inside the body opens another context or emits a statement, and
\* what a step consumes is appended verbatim; the script of the CREATE
\* FUNCTION example yields one statement holding the full body.
C9_Step ==
    (InLoop /\ in_dollar) =>
        /\ ch # "$" =>
               /\ buf' = Append(buf, ch)
               /\ i' = i + 1
               /\ in_dollar'
               /\ dollar_tag' = dollar_tag
        /\ ~in_single'
        /\ ~in_double'
        /\ ~in_line_comment'
        /\ ~in_block_comment'
        /\ statements' = statements
        /\ cuts' = cuts
        /\ buf' = buf \o SubSeq(sql, i + 1, i')

C9_DollarBodyVerbatim ==
    /\ [][C9_Step]_vars
    /\ [](pc = "done" /\ sql = ExampleDollarBody =>
              statements = <<Front(ExampleDollarBody)>>)

C9_Witness ==
    /\ pc = "done"
    /\ sql = ExampleDollarBody
    /\ Len(statements) = 1
    /\ Cardinality({q \in 0..(n - 1) : sql[q + 1] = ";" /\ q \notin CutSet}) = 3

\* The dollar token at the scan index (meaningful when AtDollarTag holds).
DollarToken == SubSeq(sql, i + 1, TagScan(i + 1) + 1)

\* C10: inside a dollar-quoted body a dollar token that differs from the
\* opening tag leaves the body open and the stored tag unchanged; the body
\* is left only by a step that consumes exactly the text of the opening tag,
\* and a token equal to the opening tag does close it.
C10_Step ==
    (InLoop /\ in_dollar) =>
        /\ (AtDollarTag /\ DollarToken # dollar_tag) =>
               (in_dollar' /\ dollar_tag' = dollar_tag)
        /\ in_dollar' => dollar_tag' = dollar_tag
        /\ ~in_dollar' => SubSeq(sql, i + 1, i') = dollar_tag
        /\ (AtDollarTag /\ DollarToken = dollar_tag) =>
               (Normal' /\ dollar_tag' = None)

C10_OnlyEqualTagCloses == [][C10_Step]_vars

C10_Witness ==
    /\ pc = "done"
    /\ sql = <<"$", "a", "$", "$", "A", "$", ";">>
    /\ in_dollar
    /\ dollar_tag = <<"$", "a", "$">>
    /\ cuts = <<>>

\* The index, in the rejoined text, of the ";" that follows the k-th statement
\* of the first pass.
RECURSIVE JointAt(_)
JointAt(k) == IF k = 0 THEN -1 ELSE JointAt(k - 1) + Len(first[k]) + 1

JointSet == {JointAt(k) : k \in 1..Len(first)}

\* C11, as stated: splitting the statements of any script rejoined with ";"
\* and a trailing ";" returns the same statements.
C11_ResplitIsIdentity ==
    (pass = 2 /\ pc = "done") => statements = first

\* C11, amended: it does when every ";" the rejoin inserted is read in Normal
\* state, that is when no returned statement, scanned on its own, ends inside
\* a literal, a quoted identifier, a comment or a dollar-quoted body.
C11_ResplitIsIdentityWhenClosed ==
    (pass = 2 /\ pc = "done" /\ JointSet \subseteq CutSet) =>
        statements = first

C11_Witness ==
    /\ pass = 2
    /\ pc = "done"
    /\ JointSet \subseteq CutSet
    /\ Len(first) >= 2
    /\ HasInnerSemicolon

\* The text without its leading whitespace.
LStrip(s) ==
    LET keep == {k \in 1..Len(s) : s[k] \notin Whitespace}
    IN  IF keep = {} THEN <<>> ELSE SubSeq(s, SetMin(keep), Len(s))

\* The text after the last top-level semicolon.
LastChunk == Chunk(Len(cuts) + 1)

\* C12, as stated: at end of input the rest of the buffer is flushed as the
\* final statement whenever it is non-empty after stripping, whatever the
\* scan state; with a context left open, the final statement is everything
\* from the start of the statement holding the opener to the end of the
\* script, verbatim.
C12_OpenContextKeptVerbatim ==
    pc = "done" =>
        /\ Strip(LastChunk) # <<>> =>
               (statements # <<>> /\ statements[Len(statements)] = Strip(LastChunk))
        /\ ~Normal =>
               (statements # <<>> /\ statements[Len(statements)] = LStrip(LastChunk))

\* C12, amended: with a context left open, the final statement is that text
\* without the whitespace that ends the script: the tail is stripped like any
\* other statement.
C12_OpenContextKeptStripped ==
    pc = "done" =>
        /\ Strip(LastChunk) # <<>> =>
               (statements # <<>> /\ statements[Len(statements)] = Strip(LastChunk))
        /\ ~Normal =>
               /\ statements # <<>>
               /\ statements[Len(statements)] = Strip(LStrip(LastChunk))
               /\ Len(statements) = Len(StrippedChunks(Len(cuts))) + 1

C12_Witness ==
    /\ pc = "done"
    /\ ~Normal
    /\ Len(cuts) >= 1
    /\ sql[n] \in Whitespace
    /\ Len(statements) >= 2

\* C13: every loop iteration moves the scan index strictly forward and never
\* past the end of the script, what it consumes and what the tag scan looks
\* at lies inside the script, the function returns with i = len(sql), and
\* it does return.
C13_Step == InLoop => (i < i' /\ i' <= n)

C13_Inv ==
    /\ 0 <= i
    /\ i <= n
    /\ pc = "done" => i = n
    /\ InLoop => TagScan(i + 1) <= n

C13_Terminates ==
    /\ [][C13_Step]_vars
    /\ []C13_Inv
    /\ <>(pc = "done")

C13_Witness ==
    /\ pc = "done"
    /\ i = n
    /\ n = MaxLen
    /\ Len(buf) < n - 1

\* <<1, 2, ..., m>>
UpTo(m) == [k \in 1..m |-> k]

\* C14: main executes the statements one at a time in list order on one
\* connection: every call of cur.execute is made on the open connection, for
\* the index that follows the last one executed, after every earlier call
\* returned; the database applied the statements of the list in order; a
\* closed connection is never used again; and a run that returns has
\* executed every statement exactly once.
C14_Step ==
    /\ executed' # executed =>
           /\ conn = "open"
           /\ conn' = "open"
           /\ executed' = Append(executed, Len(executed) + 1)
           /\ Len(committed) = Len(executed)
           /\ failed = 0
    /\ conn = "closed" => conn' = "closed"
    /\ conn = "open" => conn' # "none"

C14_Inv ==
    /\ executed = UpTo(Len(executed))
    /\ Len(executed) <= Len(statements)
    /\ committed = SubSeq(statements, 1, Len(committed))
    /\ mpc = "returned" => executed = UpTo(Len(statements))

C14_SequentialInOrder == [][C14_Step]_vars /\ []C14_Inv

C14_Witness ==
    /\ mpc = "returned"
    /\ Len(executed) >= 2
    /\ committed = statements
    /\ conn = "closed"

\* C15: when cur.execute raises for statement k the batch halts: k is the
\* last index executed and is executed once, the statements before k stay
\* applied, nothing more is executed, applied or printed from then on, main
\* ends by raising and never returns, and Done is not printed.
C15_Step ==
    failed # 0 =>
        /\ UNCHANGED <<executed, committed, printed, failed>>
        /\ mpc' # "returned"

C15_Inv ==
    failed # 0 =>
        /\ executed = UpTo(failed)
        /\ committed = SubSeq(statements, 1, failed - 1)
        /\ mpc \in {"finally", "raised"}
        /\ <<"Done">> \notin Range(printed)

C15_FailureHaltsBatch == [][C15_Step]_vars /\ []C15_Inv

C15_Witness ==
    /\ mpc = "raised"
    /\ failed = 2
    /\ Len(statements) >= 3
    /\ Len(committed) = 1
    /\ conn = "closed"

\* What main reports: the lines it printed and, once it has raised, the
\* database error it lets propagate, which carries the database's message.
Reports ==
    Range(printed) \cup
        (IF mpc = "raised" THEN {<<"psycopg2.Error">>} ELSE {})

\* C16: when the execution of a statement fails, main reports the 1-based
\* index of the failing statement together with the total statement count.
C16_FailureReportsIndex ==
    (mpc = "raised" /\ failed # 0) =>
        \E r \in Reports :
            /\ Len(r) = 3
            /\ r[2] = failed
            /\ r[3] = Len(statements)

\* The progress lines for the statements 1..m of N.
OkLines(m) == [k \in 1..m |-> <<"OK", k, Len(statements)>>]

\* C17: OK i/N is printed exactly once for each statement that succeeded,
\* after its execution and before the next statement starts, for i = 1, 2,
\* ... without gaps; Done is printed only after OK N/N, or at once when
\* there is no statement.
C17_ProgressLines ==
    /\ mpc \in {"exec", "finally", "raised"} => printed = OkLines(Len(committed))
    /\ mpc = "print" => printed = OkLines(Len(committed) - 1)
    /\ mpc = "exec" => Len(printed) = idx - 1
    /\ mpc = "print_done" => printed = OkLines(Len(statements))
    /\ mpc = "returned" =>
           printed = Append(OkLines(Len(statements)), <<"Done">>)
    /\ <<"Done">> \in Range(printed) => mpc = "returned"

C17_Witness ==
    /\ mpc = "returned"
    /\ Len(statements) >= 2
    /\ Len(printed) = Len(statements) + 1

\* The text of the script at 0-based position p is the tag t.
TextIs(p, t) == p + Len(t) <= n /\ SubSeq(sql, p + 1, p + Len(t)) = t

\* C20: inside a dollar-quoted body the scanner never steps over a position
\* at which the script text equals the opening tag: a step that leaves the
\* body open has consumed no position where the tag occurs, so the body
\* closes at the earliest occurrence of the tag, also when the tag's leading
\* '$' is the trailing '$' of a preceding dollar token that differs from it.
C20_Step ==
    (InLoop /\ in_dollar /\ in_dollar') =>
        \A p \in i..(i' - 1) : ~TextIs(p, dollar_tag)

C20_ClosesAtEarliestTag == [][C20_Step]_vars

\* The places in deployments of the production deployments.
ProductionPlaces ==
    {k \in DOMAIN deployments : deployments[k].target = "production"}

\* The id of the most recent production deployment; deployments holds the
\* most recent first.
MostRecentProduction == deployments[SetMin(ProductionPlaces)].uid

\* C18: whatever list of deployments the API returned, the most recent
\* production deployment of the project is never sent a DELETE request,
\* during the run and after main finished.
C18_KeepsLatestProduction ==
    (ProductionPlaces # {}) => MostRecentProduction \notin Range(requests)

\* C19: no file under the repository root is ever written with the value
\* of a secret in it.
C19_NoSecretInRepo ==
    \A f \in written : f.in_repo => f.keys \cap SecretKeys = {}

\* The flags that are set.
ActiveFlags ==
    {f \in {"in_single", "in_double", "in_line_comment", "in_block_comment",
            "in_dollar"} :
        CASE f = "in_single" -> in_single
          [] f = "in_double" -> in_double
          [] f = "in_line_comment" -> in_line_comment
          [] f = "in_block_comment" -> in_block_comment
          [] f = "in_dollar" -> in_dollar}

\* C21: at the start of every loop iteration (and when the loop is left) at
\* most one of the five flags is set, and dollar_tag holds a tag exactly
\* when in_dollar is set.
C21_OneStateActive ==
    /\ Cardinality(ActiveFlags) <= 1
    /\ (dollar_tag # None) <=> in_dollar

\* A quote and a comment opener were read inside a dollar-quoted body, or a
\* context was entered after a body was closed.
C21_Witness ==
    /\ pc = "loop"
    /\ i >= 4
    /\ \/ in_dollar /\ sql[3] \in {"'", "\"", "-", "/"}
       \/ ~in_dollar /\ ~Normal /\ sql[1] = "$"

\* The scan state: the five flags.
Flags ==
    <<in_single, in_double, in_line_comment, in_block_comment, in_dollar>>

\* C22: a step that changes the scan state starts or ends in Normal; inside
\* a single-quoted literal the characters "-", "/", the double quote and "$"
\* leave the state unchanged, inside a double-quoted identifier the single
\* quote, "-", "/" and "$" do, and inside a line or block comment the two
\* quotes and "$" do.
C22_Step ==
    InLoop =>
        /\ Flags' # Flags => (Normal \/ Normal')
        /\ (in_single /\ ch \in {"-", "/", "\"", "$"}) => Flags' = Flags
        /\ (in_double /\ ch \in {"'", "-", "/", "$"}) => Flags' = Flags
        /\ ((in_line_comment \/ in_block_comment) /\ ch \in {"'", "\"", "$"})
               => Flags' = Flags

C22_ContextsDoNotStack == [][C22_Step]_vars

\* A dollar tag was read inside a single-quoted literal, which is still open.
C22_Witness ==
    /\ in_single
    /\ i = 3
    /\ sql[2] = "$"
    /\ sql[3] = "$"

\* C23: a double quote read in Normal state is appended and opens the
\* identifier; inside it the next double quote, whatever follows it, is
\* appended and returns to Normal; a ";" read inside it is appended, leaves
\* it open and is no statement boundary.
C23_Step ==
    InLoop =>
        /\ (Normal /\ ch = "\"") =>
               /\ in_double'
               /\ i' = i + 1
               /\ buf' = Append(buf, "\"")
        /\ (in_double /\ ch = "\"") =>
               /\ Normal'
               /\ i' = i + 1
               /\ buf' = Append(buf, "\"")
        /\ (in_double /\ ch = ";") =>
               /\ in_double'
               /\ i' = i + 1
               /\ buf' = Append(buf, ";")
               /\ statements' = statements
               /\ cuts' = cuts

C23_DoubleQuoteToggles == [][C23_Step]_vars

C23_Witness ==
    /\ pc = "done"
    /\ sql = <<"\"", ";", "\"", ";">>
    /\ statements = <<(<<"\"", ";", "\"">>)>>
    /\ cuts = <<3>>

\* The 0-based positions at or after p where the script reads "*/".
ClosersFrom(p) ==
    {q \in p..(n - 2) : sql[q + 1] = "*" /\ sql[q + 2] = "/"}

\* C24: "/*" read in Normal state is consumed whole and opens the comment;
\* inside it only "*/" changes the state, back to Normal, and every other
\* position ("/*" too) is consumed alone and leaves the comment open.
C24_Step ==
    InLoop =>
        /\ (Normal /\ ch = "/" /\ nxt = "*") =>
               /\ in_block_comment'
               /\ i' = i + 2
               /\ buf' = buf \o <<"/", "*">>
        /\ (in_block_comment /\ ch = "*" /\ nxt = "/") =>
               /\ Normal'
               /\ i' = i + 2
               /\ buf' = buf \o <<"*", "/">>
        /\ (in_block_comment /\ ~(ch = "*" /\ nxt = "/")) =>
               /\ in_block_comment'
               /\ i' = i + 1
               /\ buf' = Append(buf, ch)
               /\ cuts' = cuts

\* In a script that starts with "/*", a ";" that follows the first "*/"
\* after the opener is a statement boundary, and nothing before it is.
C24_Inv ==
    (/\ pc = "done"
     /\ n >= 2
     /\ sql[1] = "/"
     /\ sql[2] = "*"
     /\ ClosersFrom(2) # {}) =>
        LET c == SetMin(ClosersFrom(2))
        IN  /\ \A q \in CutSet : q >= c + 2
            /\ (c + 2 < n /\ sql[c + 3] = ";") => (c + 2) \in CutSet

C24_BlockCommentsDoNotNest == [][C24_Step]_vars /\ []C24_Inv

C24_Witness ==
    /\ pc = "done"
    /\ sql = <<"/", "*", "/", "*", "*", "/", ";">>
    /\ cuts = <<6>>
    /\ Len(statements) = 1

\* The 0-based positions j after p such that the script reads, from p + 1
\* to j, letters, digits and underscores only and then a "$".
TagEnds(p) ==
    {j \in (p + 1)..(n - 1) :
        /\ sql[j + 1] = "$"
        /\ \A k \in (p + 1)..(j - 1) : IsTagChar(sql[k + 1])}

\* C25: a "$" read in Normal state opens a dollar-quoted body, with the tag
\* as its text, exactly when letters, digits and underscores (none too) and
\* then a "$" follow it; otherwise the "$" alone is appended and the state
\* stays Normal.
C25_Step ==
    (InLoop /\ Normal /\ ch = "$") =>
        IF TagEnds(i) # {}
        THEN LET j == SetMin(TagEnds(i))
             IN  /\ in_dollar'
                 /\ dollar_tag' = SubSeq(sql, i + 1, j + 1)
                 /\ buf' = buf \o SubSeq(sql, i + 1, j + 1)
                 /\ i' = j + 1
        ELSE /\ Normal'
             /\ dollar_tag' = None
             /\ buf' = Append(buf, "$")
             /\ i' = i + 1

\* SELECT $1; SELECT $2 yields two statements.
C25_Inv ==
    (pc = "done" /\ sql = ExamplePositionalParameters) =>
        statements = <<SubSeq(sql, 1, 9), SubSeq(sql, 12, 20)>>

C25_DollarNeedsClosedTag == [][C25_Step]_vars /\ []C25_Inv

C25_Witness ==
    /\ pc = "done"
    /\ sql = ExamplePositionalParameters
    /\ Len(statements) = 2
    /\ cuts = <<9>>

\* Longest text put in place of what follows the characters a step looked at.
MaxSuffixLen == 2

\* The flags with the one at place k set to b.
WithFlag(fl, k, b) == [fl EXCEPT ![k] = b]

\* The inner while loop of lines 84-86 on the script s.
RECURSIVE TagScanIn(_, _)
TagScanIn(s, j) ==
    IF j < Len(s) /\ IsTagChar(s[j + 1]) THEN TagScanIn(s, j + 1) ELSE j

\* One iteration of the loop of lines 27-108 as a function of the script s,
\* the index p, the flags fl (in the order of Flags) and the stored tag:
\* how far the index advances, the flags and the tag after it, and whether
\* the buffer is flushed.
StepAt(s, p, fl, tag) ==
    LET c == s[p + 1]
        x == IF p + 1 < Len(s) THEN s[p + 2] ELSE ""
        j == TagScanIn(s, p + 1)
        Out(adv, fl2, tag2, flush) ==
            [adv |-> adv, flags |-> fl2, tag |-> tag2, flush |-> flush,
             app |-> IF flush THEN <<>> ELSE SubSeq(s, p + 1, p + adv)]
    IN  IF fl[3]
        THEN Out(1, WithFlag(fl, 3, c # "\n"), tag, FALSE)
        ELSE IF fl[4]
        THEN IF c = "*" /\ x = "/"
             THEN Out(2, WithFlag(fl, 4, FALSE), tag, FALSE)
             ELSE Out(1, fl, tag, FALSE)
        ELSE IF ~fl[1] /\ ~fl[2] /\ ~fl[5] /\ c = "-" /\ x = "-"
        THEN Out(2, WithFlag(fl, 3, TRUE), tag, FALSE)
        ELSE IF ~fl[1] /\ ~fl[2] /\ ~fl[5] /\ c = "/" /\ x = "*"
        THEN Out(2, WithFlag(fl, 4, TRUE), tag, FALSE)
        ELSE IF ~fl[2] /\ ~fl[5] /\ c = "'"
        THEN IF fl[1]
             THEN IF x = "'"
                  THEN Out(2, fl, tag, FALSE)
                  ELSE Out(1, WithFlag(fl, 1, FALSE), tag, FALSE)
             ELSE Out(1, WithFlag(fl, 1, TRUE), tag, FALSE)
        ELSE IF ~fl[1] /\ ~fl[5] /\ c = "\""
        THEN Out(1, WithFlag(fl, 2, ~fl[2]), tag, FALSE)
        ELSE IF ~fl[1] /\ ~fl[2] /\ c = "$" /\ j < Len(s) /\ s[j + 1] = "$"
        THEN LET t == SubSeq(s, p + 1, j + 1)
             IN  IF fl[5] /\ tag = t
                 THEN Out(j + 1 - p, WithFlag(fl, 5, FALSE), None, FALSE)
                 ELSE IF ~fl[5]
                      THEN Out(j + 1 - p, WithFlag(fl, 5, TRUE), t, FALSE)
                      ELSE Out(j + 1 - p, fl, tag, FALSE)
        ELSE IF ~fl[1] /\ ~fl[2] /\ ~fl[5] /\ c = ";"
        THEN Out(1, fl, tag, TRUE)
        ELSE Out(1, fl, tag, FALSE)

\* What the step from this state to the next did.
StepTaken ==
    [adv |-> i' - i, flags |-> Flags', tag |-> dollar_tag',
     flush |-> cuts' # cuts,
     app |-> IF cuts' # cuts THEN buf' ELSE SubSeq(buf', Len(buf) + 1, Len(buf'))]

\* The characters of the text put after the agreed ones.
SuffixAlphabet == {";", "$", "a"}

\* The scripts that agree with sql on their first k characters, being sql
\* itself when sql has fewer than k.
SameUpTo(k) ==
    IF k <= n
    THEN {SubSeq(sql, 1, k) \o w : w \in SeqsUpTo(SuffixAlphabet, MaxSuffixLen)}
    ELSE {sql}

\* The number of leading characters of the script the iteration at i looks
\* at: through sql[i + 1] (0-based), and for a "$" outside quotes and
\* comments through the first character after it that is no letter, digit
\* or underscore.
LookedAt ==
    IF ~in_line_comment /\ ~in_block_comment /\ ~in_single /\ ~in_double
           /\ ch = "$"
    THEN SetMax({i + 2, TagScan(i + 1) + 1})
    ELSE i + 2

\* C26 as stated: the step at i is the same for every script that agrees
\* with this one up to the character after i, the scan state being equal.
C26_Step ==
    InLoop =>
        /\ StepTaken = StepAt(sql, i, Flags, dollar_tag)
        /\ \A t \in SameUpTo(i + 2) :
               StepAt(t, i, Flags, dollar_tag) = StepTaken

C26_OneCharLookahead == [][C26_Step]_vars

\* C26, amended: the step at i is the same for every script that agrees
\* with this one on the characters the iteration looks at, the scan state
\* and the stored tag being equal: up to the character after i, and for a
\* "$" outside quotes and comments up to the first character after it that
\* is no letter, digit or underscore.
C26_AmendedStep ==
    InLoop =>
        /\ StepTaken = StepAt(sql, i, Flags, dollar_tag)
        /\ \A t \in SameUpTo(LookedAt) :
               StepAt(t, i, Flags, dollar_tag) = StepTaken

C26_LookaheadThroughTag == [][C26_AmendedStep]_vars

\* A tag of three characters was read as one step.
C26_Witness ==
    /\ in_dollar
    /\ dollar_tag = <<"$", "a", "$">>
    /\ i = 3
    /\ n >= 5

\* C27: conn.close() is called only on the open connection, and once at
\* most.
C27_Step ==
    closes' # closes =>
        /\ conn = "open"
        /\ conn' = "closed"
        /\ closes' = 1

\* The connection is closed exactly when close was called once.
C27_Inv ==
    /\ closes <= 1
    /\ (conn = "closed") <=> (closes = 1)
    /\ (conn = "none") => (closes = 0)

\* Once psycopg2.connect has returned the connection, conn.close() is
\* eventually called, exactly once, when all statements succeed and when the
\* execution of one raises.
C27_ClosedExactlyOnce ==
    /\ [][C27_Step]_vars
    /\ []C27_Inv
    /\ (conn = "open") ~> (conn = "closed" /\ closes = 1)
    /\ (failed # 0) ~> (conn = "closed" /\ closes = 1)

C27_Witness ==
    /\ mpc = "raised"
    /\ failed = 1
    /\ Len(statements) >= 2
    /\ conn = "closed"
    /\ closes = 1

\* No database URL can be resolved: none in the environment, none in
\* .env.local, and host, user and password are not all there.
NoDatabaseUrl ==
    /\ ~inputs.env_url
    /\ \/ ~inputs.env_local
       \/ inputs.file_url # "set" /\ ~(DbParts \subseteq inputs.parts)

\* main cannot run the migration.
CannotRun == mpc # "off" /\ (NoDatabaseUrl \/ ~inputs.migration)

\* C28: when no database URL can be resolved or the migration file does not
\* exist, no connection is opened, the splitter is not called and no
\* statement is executed.
C28_Inv ==
    CannotRun =>
        /\ conn = "none"
        /\ closes = 0
        /\ executed = <<>>
        /\ committed = <<>>
        /\ printed = <<>>
        /\ pc = "idle"
        /\ mpc \in {"resolve", "check_url", "check_migration", "exit"}

\* In that case the run ends with SystemExit.
C28_ExitsBeforeConnect ==
    /\ []C28_Inv
    /\ CannotRun ~> (mpc = "exit")

C28_Witness ==
    /\ mpc = "exit"
    /\ inputs.env_local
    /\ inputs.file_url = "empty"
    /\ Cardinality(inputs.parts) = 2
    /\ inputs.migration

\* The ends of a step after which main calls the next one.
GoesOn == {"skipped", "completed"}

\* The steps logged so far are the first ones of the documented order, and
\* all but the last one completed or were skipped.
InOrder(log) ==
    /\ Len(log) <= Len(Steps)
    /\ \A k \in 1..Len(log) :
           /\ log[k][1] = Steps[k]
           /\ k < Len(log) => log[k][2] \in GoesOn

\* C29: a step is entered only when every earlier step of the documented
\* order has completed or been skipped and main has not returned; once main
\* has returned or raised nothing more happens.
C29_Step ==
    /\ dlog' # dlog =>
           /\ rc = NoReturn
           /\ \A k \in 1..Len(dlog) : dlog[k][2] \in GoesOn
           /\ \E end \in {"skipped", "completed", "failed", "crashed"} :
                  dlog' = Append(dlog, <<Steps[Len(dlog) + 1], end>>)
           /\ InOrder(dlog')
    /\ dpc \in {"returned", "raised"} => UNCHANGED deployVars

\* A step that raised StepError is the last one and main returns 1; main
\* returns 0 only after the five steps, the last one too, have completed or
\* been skipped; it returns 1 only for a StepError.
C29_Inv ==
    /\ InOrder(dlog)
    /\ \A k \in 1..Len(dlog) :
           dlog[k][2] = "failed" =>
               (k = Len(dlog) /\ dpc = "returned" /\ rc = 1)
    /\ rc = 0 =>
           /\ Len(dlog) = Len(Steps)
           /\ \A k \in 1..Len(dlog) : dlog[k][2] \in GoesOn
    /\ rc = 1 =>
           (dlog = <<>> \/ dlog[Len(dlog)][2] = "failed")
    /\ dpc = "success" => (Len(dlog) = Len(Steps) /\ rc = NoReturn)

C29_StepsInOrder == [][C29_Step]_vars /\ []C29_Inv

\* The third step raised StepError after one step completed and one was
\* skipped.
C29_Witness ==
    /\ dpc = "returned"
    /\ rc = 1
    /\ Len(dlog) = 3
    /\ dlog[1][2] = "completed"
    /\ dlog[2][2] = "skipped"
    /\ dlog[3][2] = "failed"

\* main of e2e_live_ingest_test.py has ended.
E2EEnded == epc \in {"returned", "raised"}

\* The last ingest POST sent failed.
IngestFailed == posts # <<>> /\ posts[Len(posts)].kind # "ok"

\* C30: the ingest POST is sent at most twice; it is sent a second time
\* only after the first one got HTTP 401 with --ensure-vercel given and both
\* the Vercel env sync and the redeploy trigger succeeded; a run whose last
\* POST failed (the retry, a 401 that could not be repaired, any other first
\* failure) ends with main returning 1, and no public endpoint is polled in
\* it.
C30_RetryOnceElseReturnOne ==
    /\ Len(posts) <= 2
    /\ Len(posts) = 2 =>
           /\ posts[1].kind = "HTTPError"
           /\ posts[1].status = 401
           /\ args.ensure_vercel
           /\ env_ok
           /\ redeploy_ok
    /\ IngestFailed => polls = <<>>
    /\ (IngestFailed /\ E2EEnded) => (epc = "returned" /\ erc = 1)

====
